---- MODULE Spec2Model ----
(***************************************************************************)
(* Model of beir/retrieval/search/dense/exact_search_multi_gpu.py:         *)
(* DenseRetrievalParallelExactSearch.search (the coordinator and the merge *)
(* stage), _encode_multi_process_worker (the worker loop) and DummyMetric  *)
(* (the collector the workers append to).                                  *)
(*                                                                         *)
(* Python sequences are 0-based; TLA+ sequences are 1-based.  Local        *)
(* indices, batch indices and process ids keep their 0-based Python        *)
(* values and At(s, i) reads s[i] the Python way.                           *)
(***************************************************************************)
EXTENDS Integers, Sequences, FiniteSets, TLC

\* ------------------------------------------------------------------ bounds
MaxCorpus   == 4   \* largest corpus of a job
MaxQueries  == 2   \* largest number of queries of a job
MaxTopK     == 2   \* largest top_k of a job
MaxWorkers  == 2   \* largest number of target devices
MaxChunkArg == 3   \* largest corpus_chunk_size given to the constructor
MaxCalls    == 2   \* search() invocations on one object (SpecRepeat)

\* ------------------------------------------------------- program constants
DefaultChunkCap   == 5000   \* min(..., 5000) of the derived chunk size
DefaultChunkDiv   == 10     \* len(corpus) / len(target_devices) / 10
NanScore          == -1     \* cos_scores[torch.isnan(cos_scores)] = -1
SentinelBatch     == -1     \* batch_index=[-1] of the warmup record
SentinelWidth     == 5      \* torch.ones((1,5))

\* ----------------------------------------------------------------- helpers
Min(a, b) == IF a <= b THEN a ELSE b

\* math.ceil(a / b) for a >= 0, b > 0
CeilDiv(a, b) == (a + b - 1) \div b

\* s[i] with a 0-based Python index
At(s, i) == s[i + 1]

\* Python None for an optional integer field is the empty tuple, a value v
\* is <<v>>
None == << >>
Some(v) == << v >>
IsNone(o) == o = << >>
Val(o) == o[1]

Range(s) == { s[i] : i \in DOMAIN s }

RECURSIVE Flatten(_)
Flatten(ss) == IF ss = << >> THEN << >> ELSE Head(ss) \o Flatten(Tail(ss))

\* the score of a not-a-number entry before line 163 replaces it; torch
\* orders NaN above every number
NaN == 99

\* ---------------------------------------------------------------- the data
\* A corpus item is [id, len, vec]: len is len(title + text), vec stands for
\* the embedding model.encode gives its text (0 is the zero vector).  A
\* query item is [id, text]; its embedding is named by its text.
ScoreFunctions == { "cos_sim", "dot" }          \* keys of self.score_functions
ScoreNames     == ScoreFunctions \cup { "l2" }
ScoreLevels    == MaxCorpus

\* the corpus handed to search(): ids 1..n, shortest text first (so the sort
\* by falling length reorders it), item z (if any) embedded as the zero vector
CorpusOf(n, z) ==
    [ i \in 1..n |-> [ id |-> i, len |-> i, vec |-> IF i = z THEN 0 ELSE i ] ]

\* the queries handed to search(): ids first, first+1, ...; an id in 1..n is
\* also the id of a corpus item
QueriesOf(nq, first) == [ j \in 1..nq |-> [ id |-> first + j - 1, text |-> j ] ]

\* the zero-vector items tried: none, the shortest text, the longest text
ZeroItems(n) == { 0, 1, n }

\* the ids tried for the first query: 0 is no corpus id, 1 and n are the
\* ids of the shortest and of the longest text
FirstIds(n) == { 0, 1, n }

\* the numbers of queries tried: one, and the most
QueryCounts == { 1, MaxQueries }

Jobs ==
    UNION { { [ corpus |-> CorpusOf(n, z), queries |-> QueriesOf(nq, first),
                top_k |-> k, score_function |-> sf ] :
                z \in ZeroItems(n), first \in FirstIds(n) } :
            n \in 1..MaxCorpus, nq \in QueryCounts, k \in 1..MaxTopK,
            sf \in ScoreNames }

NoJob == [ corpus |-> << >>, queries |-> << >>, top_k |-> 0, score_function |-> "None" ]

\* util.cos_sim / util.dot_score on one (query, item) pair: a fixed table of
\* the embedding model, under which the items of a corpus score pairwise
\* differently against a query and the first query scores a longer text
\* higher; a zero vector has dot product 0 (which ties with the item the
\* table scores 0) and no cosine
Similarity(sf, qe, vec) ==
    IF vec = 0 THEN (IF sf = "cos_sim" THEN NaN ELSE 0)
    ELSE (vec + qe - 2) % ScoreLevels

\* cos_scores[torch.isnan(cos_scores)] = -1
ReplaceNaN(x) == IF x = NaN THEN NanScore ELSE x

\* the score matrix of a chunk after NaN replacement: one row per query,
\* one column per item of the chunk
CosScores(sf, qembs, sentences) ==
    [ q \in DOMAIN qembs |->
        [ l \in DOMAIN sentences |->
            ReplaceNaN(Similarity(sf, qembs[q], sentences[l].vec)) ] ]

\* corpus.sort('len', reverse=True)
RECURSIVE SortLongestFirst(_)
SortLongestFirst(c) ==
    IF c = << >> THEN << >>
    ELSE LET i == CHOOSE i \in DOMAIN c :
                    \A j \in DOMAIN c :
                        c[i].len > c[j].len \/ (c[i].len = c[j].len /\ i <= j)
             rest == [ j \in 1..(Len(c) - 1) |-> IF j < i THEN c[j] ELSE c[j + 1] ]
         IN  << c[i] >> \o SortLongestFirst(rest)

\* DataLoader(data, batch_size=bs): consecutive batches of bs items, the
\* last one possibly shorter
RECURSIVE Batches(_, _)
Batches(data, bs) ==
    IF data = << >> THEN << >>
    ELSE IF Len(data) <= bs THEN << data >>
    ELSE << SubSeq(data, 1, bs) >> \o Batches(SubSeq(data, bs + 1, Len(data)), bs)

\* model.encode_queries on one batch of query texts
EncodeQueriesBatch(batch) == [ j \in DOMAIN batch |-> batch[j].text ]

\* ---------------------------------------------------------- top-k selection
\* torch.topk(row, k, largest=True, sorted=False): any k positions none of
\* which scores below a position left out ...
TopKSets(row, k) ==
    { S \in SUBSET (0..(Len(row) - 1)) :
        /\ Cardinality(S) = k
        /\ \A a \in S : \A b \in (0..(Len(row) - 1)) \ S : At(row, a) >= At(row, b) }

\* ... returned in an order the call leaves open: by falling score or by
\* rising position
TopKOrders == { "score", "position" }

Before(row, order, a, b) ==
    IF order = "score"
    THEN At(row, a) > At(row, b) \/ (At(row, a) = At(row, b) /\ a <= b)
    ELSE a <= b

RECURSIVE InOrder(_, _, _)
InOrder(S, row, order) ==
    IF S = {} THEN << >>
    ELSE LET a == CHOOSE a \in S : \A b \in S : Before(row, order, a, b)
         IN  << a >> \o InOrder(S \ {a}, row, order)

\* the possible index results of torch.topk(cos_scores, k, dim=1): for each
\* query the chosen local positions
TopK(cos_scores, k) ==
    LET sets == UNION { TopKSets(cos_scores[q], k) : q \in DOMAIN cos_scores }
    IN  { [ q \in DOMAIN cos_scores |-> InOrder(sel[q], cos_scores[q], order) ] :
            sel \in { f \in [ DOMAIN cos_scores -> sets ] :
                        \A q \in DOMAIN cos_scores : f[q] \in TopKSets(cos_scores[q], k) },
            order \in TopKOrders }

\* mutant: the rows of a record do not carry the index of their chunk
RecordRowsUntagged(id, cos_scores, idx, k) ==
    [ j \in 1..k |->
        [ cos_scores_top_k_values |->
              [ q \in DOMAIN cos_scores |-> At(cos_scores[q], idx[q][j]) ],
          cos_scores_top_k_idx |-> [ q \in DOMAIN cos_scores |-> idx[q][j] ],
          batch_index |-> 0 ] ]

\* the rows add_batch stores for chunk id: after the transposes row j holds
\* the j-th candidate of every query
RecordRows(id, cos_scores, idx, k) ==
    [ j \in 1..k |->
        [ cos_scores_top_k_values |->
              [ q \in DOMAIN cos_scores |-> At(cos_scores[q], idx[q][j]) ],
          cos_scores_top_k_idx |-> [ q \in DOMAIN cos_scores |-> idx[q][j] ],
          batch_index |-> id ] ]

\* DummyMetric.warmup: one row of five ones, batch_index -1
SentinelRow ==
    [ cos_scores_top_k_values |-> [ c \in 1..SentinelWidth |-> 1 ],
      cos_scores_top_k_idx    |-> [ c \in 1..SentinelWidth |-> 1 ],
      batch_index             |-> SentinelBatch ]

\* -------------------------------------------------------------------- merge
\* mutant: the batch number is added without the chunk size as its stride
GlobalPosNoStride(local, batch_num, chunk_size) == local + batch_num

\* sub_corpus_id = cos_scores_top_k_idx[i][query_itr] + batch_num * chunk size
GlobalPos(local, batch_num, chunk_size) == local + batch_num * chunk_size

\* mutant: the self-match test is missing
KeepEvery(corpus_id, query_id) == TRUE

\* corpus_id != query_id
KeepCandidate(corpus_id, query_id) == corpus_id # query_id

\* the inner loop of the merge for query query_itr over rows i.., adding to
\* acc = results[query_id]
RECURSIVE MergeQuery(_, _, _, _, _, _, _)
MergeQuery(rws, i, query_itr, query_id, corpus_ids, chunk_size, acc) ==
    IF i > Len(rws) THEN acc
    ELSE LET row == rws[i]
             sub_corpus_id == GlobalPos(At(row.cos_scores_top_k_idx, query_itr),
                                        row.batch_index, chunk_size)
             score == At(row.cos_scores_top_k_values, query_itr)
             corpus_id == At(corpus_ids, sub_corpus_id)
         IN  IF row.batch_index = SentinelBatch
             THEN MergeQuery(rws, i + 1, query_itr, query_id, corpus_ids, chunk_size, acc)
             ELSE MergeQuery(rws, i + 1, query_itr, query_id, corpus_ids, chunk_size,
                             IF KeepCandidate(corpus_id, query_id)
                             THEN (corpus_id :> score) @@ acc ELSE acc)

\* mutant: the merge reads the index of a row before it looks at its tag
MergeIndexErrorReadFirst(rws, nq, ncorpus, chunk_size) ==
    \E i \in DOMAIN rws : \E query_itr \in 0..(nq - 1) :
        \/ query_itr >= Len(rws[i].cos_scores_top_k_idx)
        \/ /\ rws[i].batch_index # SentinelBatch
           /\ GlobalPos(At(rws[i].cos_scores_top_k_idx, query_itr),
                        rws[i].batch_index, chunk_size) \notin 0..(ncorpus - 1)

\* a row of the merge that reads outside a list (IndexError)
MergeIndexError(rws, nq, ncorpus, chunk_size) ==
    \E i \in DOMAIN rws : \E query_itr \in 0..(nq - 1) :
        /\ rws[i].batch_index # SentinelBatch
        /\ \/ query_itr >= Len(rws[i].cos_scores_top_k_idx)
           \/ GlobalPos(At(rws[i].cos_scores_top_k_idx, query_itr),
                        rws[i].batch_index, chunk_size) \notin 0..(ncorpus - 1)

\* self.results after the merge loops
Merged(rws, query_ids, corpus_ids, chunk_size, nq) ==
    LET Index(qid) == CHOOSE j \in 0..(nq - 1) :
                          /\ At(query_ids, j) = qid
                          /\ \A h \in 0..(nq - 1) : At(query_ids, h) = qid => h <= j
    IN  [ qid \in { At(query_ids, j) : j \in 0..(nq - 1) } |->
            MergeQuery(rws, 1, Index(qid), qid, corpus_ids, chunk_size, << >>) ]

\* -------------------------------------------------------------------- state
VARIABLES
    target_devices,     \* len(self.target_devices)
    corpus_chunk_size,  \* self.corpus_chunk_size
    results,            \* self.results
    query_embeddings,   \* self.query_embeddings
    top_k,              \* self.top_k
    score_function,     \* self.score_function
    pc,                 \* where search() stands
    error,              \* the exception search() ended with, "" if none
    calls,              \* search() invocations so far
    args,               \* the arguments of the running search()
    corpus,             \* the local corpus: the sorted corpus once sorted
    chunk_id,           \* the number of chunks dispatched so far
    rows,               \* what metric.compute() returned
    input_queue,        \* pool['input']
    results_queue,      \* pool['output']: the number of None signals in it
    workers,            \* per process id: state and pulled chunk
    collector,          \* per process id: the rows that process has stored
    pulls,              \* history: per chunk id, who pulled it and what they got
    appends,            \* history: per chunk id, who stored its record
    constructed         \* history: the corpus_chunk_size given to __init__

object == << target_devices, corpus_chunk_size, results, query_embeddings,
             top_k, score_function >>
frame  == << pc, error, calls, args, corpus, chunk_id, rows >>
pool   == << input_queue, results_queue, workers, collector, pulls, appends >>
vars   == << object, frame, pool, constructed >>

Procs == 0..(target_devices - 1)

\* the corpus_chunk_size arguments tried: unset, or a size from 2 up (a given
\* size of 1 behaves as the derived size, which is 1 for every corpus here)
ChunkArgs == { None } \cup { Some(c) : c \in 2..MaxChunkArg }

Resting == [ st |-> "off", id |-> SentinelBatch, sentences |-> << >> ]

\* DenseRetrievalParallelExactSearch.__init__
Init ==
    /\ target_devices \in 1..MaxWorkers
    /\ corpus_chunk_size \in ChunkArgs
    /\ results = << >>
    /\ query_embeddings = << >>
    /\ top_k = None
    /\ score_function = "None"
    /\ pc = "idle"
    /\ error = ""
    /\ calls = 0
    /\ args = NoJob
    /\ corpus = << >>
    /\ chunk_id = 0
    /\ rows = << >>
    /\ input_queue = << >>
    /\ results_queue = 0
    /\ workers = [ w \in Procs |-> Resting ]
    /\ collector = [ w \in Procs |-> << >> ]
    /\ pulls = << >>
    /\ appends = << >>
    /\ constructed = corpus_chunk_size

\* -------------------------------------------------------------- coordinator
\* a caller invokes search(corpus, queries, top_k, score_function); the
\* locals of the call are new
Search(job) ==
    /\ UNCHANGED constructed
    /\ pc \in { "idle", "done", "raised" }
    /\ calls < MaxCalls
    /\ pc' = "validate"
    /\ error' = ""
    /\ calls' = calls + 1
    /\ args' = job
    /\ corpus' = job.corpus
    /\ chunk_id' = 0
    /\ rows' = << >>
    /\ input_queue' = << >>
    /\ results_queue' = 0
    /\ workers' = [ w \in Procs |-> Resting ]
    /\ collector' = [ w \in Procs |-> << >> ]
    /\ pulls' = << >>
    /\ appends' = << >>
    /\ UNCHANGED object

\* line 77: the chunk size left by the constructor or an earlier search(),
\* else the derived one
BaseChunkSize(current, ncorpus, ndevices) ==
    IF IsNone(current)
    THEN Min(CeilDiv(ncorpus, ndevices * DefaultChunkDiv), DefaultChunkCap)
    ELSE Val(current)

\* lines 77-78
NormalisedChunkSize(current, ncorpus, ndevices) ==
    Min(BaseChunkSize(current, ncorpus, ndevices), ncorpus - 1)

\* mutant: the name is tested after the chunk size has been normalised and
\* stored
ValidateLate ==
    /\ UNCHANGED constructed
    /\ pc = "validate"
    /\ corpus_chunk_size' =
           Some(NormalisedChunkSize(corpus_chunk_size, Len(args.corpus), target_devices))
    /\ IF args.score_function \notin ScoreFunctions
       THEN pc' = "raised" /\ error' = "ValueError"
       ELSE pc' = "normalise" /\ error' = error
    /\ UNCHANGED << target_devices, results, query_embeddings, top_k, score_function,
                    calls, args, corpus, chunk_id, rows, pool >>

\* lines 74-75
Validate ==
    /\ UNCHANGED constructed
    /\ pc = "validate"
    /\ IF args.score_function \notin ScoreFunctions
       THEN pc' = "raised" /\ error' = "ValueError"
       ELSE pc' = "normalise" /\ error' = error
    /\ UNCHANGED << object, calls, args, corpus, chunk_id, rows, pool >>

\* lines 77-87: the chunk size is normalised and stored, the corpus sorted;
\* DataLoader rejects a batch size below 1
Normalise ==
    /\ UNCHANGED constructed
    /\ pc = "normalise"
    /\ LET size == NormalisedChunkSize(corpus_chunk_size, Len(args.corpus), target_devices)
       IN  /\ corpus_chunk_size' = Some(size)
           /\ IF size < 1
              THEN pc' = "raised" /\ error' = "ValueError"
              ELSE pc' = "encode" /\ error' = error
    /\ corpus' = SortLongestFirst(args.corpus)
    /\ UNCHANGED << target_devices, results, query_embeddings, top_k,
                    score_function, calls, args, chunk_id, rows, pool >>

\* lines 89-102: the queries are encoded batch by batch; the matrix, top_k
\* and the score function name are stored on the object
EncodeQueries ==
    /\ UNCHANGED constructed
    /\ pc = "encode"
    /\ LET queries_dl == Batches(args.queries, Val(corpus_chunk_size))
       IN  query_embeddings' =
               Flatten([ b \in DOMAIN queries_dl |-> EncodeQueriesBatch(queries_dl[b]) ])
    /\ top_k' = Some(args.top_k)
    /\ score_function' = args.score_function
    /\ pc' = "start"
    /\ UNCHANGED << target_devices, corpus_chunk_size, results, error, calls,
                    args, corpus, chunk_id, rows, pool >>

\* corpus_dl = DataLoader(corpus, batch_size=self.corpus_chunk_size)
CorpusBatches == Batches(corpus, Val(corpus_chunk_size))

\* lines 105-106: one worker process per target device
StartPool ==
    /\ UNCHANGED constructed
    /\ pc = "start"
    /\ workers' = [ w \in Procs |-> [ Resting EXCEPT !.st = "start" ] ]
    /\ pulls' = [ b \in 0..(Len(CorpusBatches) - 1) |-> << >> ]
    /\ appends' = [ b \in 0..(Len(CorpusBatches) - 1) |-> << >> ]
    /\ pc' = "dispatch"
    /\ UNCHANGED << object, error, calls, args, corpus, chunk_id, rows, input_queue,
                    results_queue, collector >>

\* lines 111-114: the next chunk goes to the work queue under its index
Dispatch ==
    /\ UNCHANGED constructed
    /\ pc = "dispatch"
    /\ chunk_id < Len(CorpusBatches)
    /\ input_queue' = Append(input_queue,
                             [ id |-> chunk_id, sentences |-> At(CorpusBatches, chunk_id) ])
    /\ chunk_id' = chunk_id + 1
    /\ UNCHANGED << object, pc, error, calls, args, corpus, rows, results_queue,
                    workers, collector, pulls, appends >>

\* line 117: blocks until every dispatched chunk has been signalled done,
\* then ends the worker processes
StopPool ==
    /\ UNCHANGED constructed
    /\ pc = "dispatch"
    /\ chunk_id = Len(CorpusBatches)
    /\ results_queue = chunk_id
    /\ workers' = [ w \in Procs |-> [ workers[w] EXCEPT !.st = "stopped" ] ]
    /\ pc' = "gather"
    /\ UNCHANGED << object, error, calls, args, corpus, chunk_id, rows, input_queue,
                    results_queue, collector, pulls, appends >>

\* metric.compute() of process 0: every row stored, writer by writer
RECURSIVE ReadAll(_, _)
ReadAll(store, w) ==
    IF w \notin DOMAIN store THEN << >> ELSE store[w] \o ReadAll(store, w + 1)

\* mutant: the collector is read as soon as the last chunk is dispatched,
\* whether or not the pool has been stopped
GatherBeforeStop ==
    /\ UNCHANGED constructed
    /\ pc \in { "dispatch", "gather" }
    /\ chunk_id = Len(CorpusBatches)
    /\ rows' = ReadAll(collector, 0)
    /\ collector' = [ w \in Procs |-> << >> ]
    /\ pc' = "merge"
    /\ UNCHANGED << object, error, calls, args, corpus, chunk_id, input_queue,
                    results_queue, workers, pulls, appends >>

\* lines 123-126: the collector is read, and emptied by the read
Gather ==
    /\ UNCHANGED constructed
    /\ pc = "gather"
    /\ rows' = ReadAll(collector, 0)
    /\ collector' = [ w \in Procs |-> << >> ]
    /\ pc' = "merge"
    /\ UNCHANGED << object, error, calls, args, corpus, chunk_id, input_queue,
                    results_queue, workers, pulls, appends >>

QueryIds  == [ j \in DOMAIN args.queries |-> args.queries[j].id ]
CorpusIds == [ p \in DOMAIN corpus |-> corpus[p].id ]

\* mutant: the results are merged into the dict the object already holds
MergeIntoOld ==
    /\ UNCHANGED constructed
    /\ pc = "merge"
    /\ IF MergeIndexError(rows, Len(query_embeddings), Len(corpus), Val(corpus_chunk_size))
       THEN /\ results' = [ qid \in Range(QueryIds) |-> << >> ]
            /\ pc' = "raised"
            /\ error' = "IndexError"
       ELSE /\ results' = Merged(rows, QueryIds, CorpusIds, Val(corpus_chunk_size),
                                 Len(query_embeddings)) @@ results
            /\ pc' = "done"
            /\ error' = error
    /\ UNCHANGED << target_devices, corpus_chunk_size, query_embeddings, top_k,
                    score_function, calls, args, corpus, chunk_id, rows, pool >>

\* lines 130-145: self.results is rebuilt from the rows and returned
Merge ==
    /\ UNCHANGED constructed
    /\ pc = "merge"
    /\ IF MergeIndexError(rows, Len(query_embeddings), Len(corpus), Val(corpus_chunk_size))
       THEN /\ results' = [ qid \in Range(QueryIds) |-> << >> ]
            /\ pc' = "raised"
            /\ error' = "IndexError"
       ELSE /\ results' = Merged(rows, QueryIds, CorpusIds, Val(corpus_chunk_size),
                                 Len(query_embeddings))
            /\ pc' = "done"
            /\ error' = error
    /\ UNCHANGED << target_devices, corpus_chunk_size, query_embeddings, top_k,
                    score_function, calls, args, corpus, chunk_id, rows, pool >>

\* ------------------------------------------------------------------ workers
\* mutant: the worker enters its loop without the warmup
WarmupSkipped(w) ==
    /\ UNCHANGED constructed
    /\ workers[w].st = "start"
    /\ workers' = [ workers EXCEPT ![w].st = "idle" ]
    /\ UNCHANGED << object, frame, input_queue, results_queue, collector, pulls,
                    appends >>

\* lines 153-154: the worker opens its collector file with the sentinel row
Warmup(w) ==
    /\ UNCHANGED constructed
    /\ workers[w].st = "start"
    /\ collector' = [ collector EXCEPT ![w] = Append(@, SentinelRow) ]
    /\ workers' = [ workers EXCEPT ![w].st = "idle" ]
    /\ UNCHANGED << object, frame, input_queue, results_queue, pulls, appends >>

\* line 157: input_queue.get() hands the oldest chunk to one worker
Pull(w) ==
    /\ UNCHANGED constructed
    /\ workers[w].st = "idle"
    /\ input_queue # << >>
    /\ workers' = [ workers EXCEPT ![w] =
                      [ st |-> "scoring", id |-> Head(input_queue).id,
                        sentences |-> Head(input_queue).sentences ] ]
    /\ input_queue' = Tail(input_queue)
    /\ pulls' = [ pulls EXCEPT ![Head(input_queue).id] =
                    Append(@, [ by |-> w, sentences |-> Head(input_queue).sentences ]) ]
    /\ UNCHANGED << object, frame, results_queue, collector, appends >>

\* mutant: the best item of the chunk is the only candidate
CandidatesOnlyBest(k, cos_scores) == Min(1, Len(At(cos_scores, 1)))

\* mutant: top_k candidates per chunk, without the one to spare
CandidatesNoMargin(k, cos_scores) == Min(k, Len(At(cos_scores, 1)))

\* min(self.top_k+1, len(cos_scores[1]))
CandidatesPerChunk(k, cos_scores) == Min(k + 1, Len(At(cos_scores, 1)))

\* mutant: the worker raises self.top_k by one where it should only read it
ProcessBumpsTopK(w) ==
    /\ UNCHANGED constructed
    /\ workers[w].st = "scoring"
    /\ LET cos_scores == CosScores(score_function, query_embeddings,
                                   workers[w].sentences)
       IN  IF Len(cos_scores) < 2
           THEN /\ workers' = [ workers EXCEPT ![w].st = "crashed" ]
                /\ UNCHANGED << collector, appends, results_queue >>
           ELSE LET k == CandidatesPerChunk(Val(top_k), cos_scores)
                IN  \E idx \in TopK(cos_scores, k) :
                        /\ collector' = [ collector EXCEPT ![w] =
                               @ \o RecordRows(workers[w].id, cos_scores, idx, k) ]
                        /\ appends' = [ appends EXCEPT ![workers[w].id] = Append(@, w) ]
                        /\ results_queue' = results_queue + 1
                        /\ workers' = [ workers EXCEPT ![w] = [ Resting EXCEPT !.st = "idle" ] ]
    /\ top_k' = Some(Val(top_k) + 1)
    /\ UNCHANGED << target_devices, corpus_chunk_size, results, query_embeddings,
                    score_function, frame, input_queue, pulls >>

\* lines 158-174: the chunk is encoded and scored against the query matrix,
\* NaN replaced, the top candidates of every query selected, the record
\* stored and the chunk signalled done.  Everything before add_batch is
\* local to the process, so the step is taken as one.  cos_scores[1] is the
\* row of the second query: with one query it raises IndexError, which the
\* except clause does not catch, and the process ends.
Process(w) ==
    /\ UNCHANGED constructed
    /\ workers[w].st = "scoring"
    /\ LET cos_scores == CosScores(score_function, query_embeddings,
                                   workers[w].sentences)
       IN  IF Len(cos_scores) < 2
           THEN /\ workers' = [ workers EXCEPT ![w].st = "crashed" ]
                /\ UNCHANGED << collector, appends, results_queue >>
           ELSE LET k == CandidatesPerChunk(Val(top_k), cos_scores)
                IN  \E idx \in TopK(cos_scores, k) :
                        /\ collector' = [ collector EXCEPT ![w] =
                               @ \o RecordRows(workers[w].id, cos_scores, idx, k) ]
                        /\ appends' = [ appends EXCEPT ![workers[w].id] = Append(@, w) ]
                        /\ results_queue' = results_queue + 1
                        /\ workers' = [ workers EXCEPT ![w] = [ Resting EXCEPT !.st = "idle" ] ]
    /\ UNCHANGED << object, frame, input_queue, pulls >>

\* ------------------------------------------------------------ specification
\* lines 155-176: what one worker process can do next.  input_queue.get()
\* is called without a timeout, so it waits for a chunk and never raises
\* queue.Empty: the break of line 176 is never taken and the process has no
\* step that leaves the loop
WorkerStep(w) == Warmup(w) \/ Pull(w) \/ Process(w)

Worker == \E w \in Procs : WorkerStep(w)

Coordinator ==
    \/ Validate \/ Normalise \/ EncodeQueries \/ StartPool
    \/ Dispatch \/ StopPool \/ Gather \/ Merge

\* one search() on a new object
Call == calls = 0 /\ \E job \in Jobs : Search(job)

Next == Call \/ Coordinator \/ Worker

Spec == Init /\ [][Next]_vars

\* the jobs of an object that is searched again and again: every corpus
\* size, the first query carrying the id of the longest text
RepeatJobs ==
    { [ corpus |-> CorpusOf(n, 0), queries |-> QueriesOf(MaxQueries, n),
        top_k |-> 1, score_function |-> "dot" ] : n \in 1..MaxCorpus }

\* up to MaxCalls invocations of search() on one object, each after the
\* one before has returned or raised
CallAgain == \E job \in RepeatJobs : Search(job)

NextRepeat == CallAgain \/ Coordinator \/ Worker

SpecRepeat == Init /\ [][NextRepeat]_vars

\* jobs with as many queries as the other jobs have at most, and with more
\* queries than the sentinel row is wide
WideJobs ==
    { [ corpus |-> CorpusOf(n, 0), queries |-> QueriesOf(nq, 1),
        top_k |-> 1, score_function |-> "dot" ] :
        n \in 2..MaxCorpus, nq \in { MaxQueries, SentinelWidth + 1 } }

\* one search() with such a job on a new object
CallWide == calls = 0 /\ \E job \in WideJobs : Search(job)

NextWide == CallWide \/ Coordinator \/ Worker

SpecWide == Init /\ [][NextWide]_vars

\* ------------------------------------------------------- what the claims use
Returned == pc = "done"

NumQueries == Len(args.queries)

\* the score the workers hold for query j (1-based) and a corpus item
ScoreOf(j, item) == ReplaceNaN(Similarity(args.score_function, query_embeddings[j], item.vec))

\* no two items of the corpus score the same against a query
DistinctScores ==
    \A j \in 1..NumQueries : \A a, b \in DOMAIN corpus :
        a # b => ScoreOf(j, corpus[a]) # ScoreOf(j, corpus[b])

\* the corpus items whose id differs from the id of query j
Others(j) == { p \in DOMAIN corpus : corpus[p].id # args.queries[j].id }

\* the true global top-k of query j: the non-self items that fewer than top_k
\* non-self items outscore
TrueTopK(j) ==
    { p \in Others(j) :
        Cardinality({ o \in Others(j) :
            ScoreOf(j, corpus[o]) > ScoreOf(j, corpus[p]) }) < args.top_k }

\* the chunk (batch index) that holds corpus position p (1-based)
ChunkOf(p) == (p - 1) \div Val(corpus_chunk_size)

\* C1: after search() returns, no query has more than top_k corpus ids in
\* its results.
C1_AtMostTopK ==
    Returned => \A j \in 1..NumQueries :
        Cardinality(DOMAIN results[args.queries[j].id]) <= args.top_k

\* C2: after search() returns, the id of a query is never a key of that
\* query's results.
C2_NoSelfMatch ==
    Returned => \A j \in 1..NumQueries :
        args.queries[j].id \notin DOMAIN results[args.queries[j].id]

\* C2 witness: search() has returned for a query whose id is the id of a
\* corpus item outside the first chunk, scored by the second worker, and the
\* query has other results.
C2_Witness ==
    /\ Returned
    /\ \E j \in 1..NumQueries : \E p \in DOMAIN corpus :
        /\ corpus[p].id = args.queries[j].id
        /\ ChunkOf(p) > 0
        /\ appends[ChunkOf(p)] = << 1 >>
        /\ DOMAIN results[args.queries[j].id] # {}

\* the rows a run with chunk size size stores when every chunk is
\* processed, chunk after chunk, and the results merged from them
SequentialRows(size) ==
    LET batches == Batches(corpus, size)
    IN  Flatten([ b \in DOMAIN batches |->
            LET cos_scores == CosScores(score_function, query_embeddings, batches[b])
                k == CandidatesPerChunk(Val(top_k), cos_scores)
            IN  RecordRows(b - 1, cos_scores, CHOOSE idx \in TopK(cos_scores, k) : TRUE, k) ])

SequentialResults(size) ==
    Merged(SequentialRows(size), QueryIds, CorpusIds, size, Len(query_embeddings))

\* C3: with distinct scores the set of corpus ids in a query's results is
\* the one every other chunk size (and so every number of workers, which
\* only enters through the derived chunk size) gives for the same corpus,
\* queries, top_k and score function.
C3_SameIdsForEveryChunkSize ==
    (Returned /\ DistinctScores) =>
        \A size \in 1..(Len(corpus) - 1) : \A j \in 1..NumQueries :
            DOMAIN results[args.queries[j].id]
                = DOMAIN SequentialResults(size)[args.queries[j].id]

\* every chunk of the corpus has had its record stored
AllChunksProcessed ==
    /\ DOMAIN appends = 0..(Len(CorpusBatches) - 1)
    /\ \A b \in DOMAIN appends : appends[b] # << >>

\* C4: when every chunk has been processed and scores are distinct, every
\* item of the true global top-k of a query is a key of the query's results,
\* mapped to its score against the query.
C4_TrueTopKKept ==
    (Returned /\ AllChunksProcessed /\ DistinctScores) =>
        \A j \in 1..NumQueries : \A p \in TrueTopK(j) :
            /\ corpus[p].id \in DOMAIN results[args.queries[j].id]
            /\ results[args.queries[j].id][corpus[p].id] = ScoreOf(j, corpus[p])

\* C4 witness: search() has returned with distinct scores, and an item of
\* the true top-k of a query sits in a chunk of more than top_k + 1 items
\* where the query's own item and top_k - 1 others outscore it, so that the
\* item is the last of the top_k + 1 candidates of its chunk.
C4_Witness ==
    /\ Returned
    /\ AllChunksProcessed
    /\ DistinctScores
    /\ \E j \in 1..NumQueries : \E p \in TrueTopK(j) : \E self \in DOMAIN corpus :
        /\ corpus[self].id = args.queries[j].id
        /\ ChunkOf(self) = ChunkOf(p)
        /\ ScoreOf(j, corpus[self]) > ScoreOf(j, corpus[p])
        /\ Cardinality({ o \in DOMAIN corpus : ChunkOf(o) = ChunkOf(p) }) > args.top_k + 1
        /\ Cardinality({ o \in DOMAIN corpus :
               /\ ChunkOf(o) = ChunkOf(p)
               /\ ScoreOf(j, corpus[o]) > ScoreOf(j, corpus[p]) }) = args.top_k

\* every row stored so far, read or not
StoredRows == Range(rows) \cup UNION { Range(collector[w]) : w \in DOMAIN collector }

\* C5: a candidate with local index l in a row tagged b resolves to a
\* position inside the corpus, which holds the very item the worker scored
\* at local position l of the chunk it pulled under index b; the indices
\* given out at dispatch are 0, 1, ... without gap or repeat.
C5_GlobalPosIsTheScoredItem ==
    /\ \A row \in StoredRows : row.batch_index # SentinelBatch =>
         \A query_itr \in 0..(Len(query_embeddings) - 1) :
            LET b == row.batch_index
                l == At(row.cos_scores_top_k_idx, query_itr)
                pos == GlobalPos(l, b, Val(corpus_chunk_size))
            IN  /\ Len(pulls[b]) = 1
                /\ l \in 0..(Len(pulls[b][1].sentences) - 1)
                /\ pos \in 0..(Len(corpus) - 1)
                /\ At(corpus, pos) = At(pulls[b][1].sentences, l)
    /\ pc \in { "dispatch", "gather", "merge", "done" } =>
         /\ \A i, j \in DOMAIN input_queue :
                input_queue[i].id = input_queue[j].id => i = j
         /\ \A i \in DOMAIN input_queue : pulls[input_queue[i].id] = << >>
         /\ { input_queue[i].id : i \in DOMAIN input_queue }
                \cup { b \in DOMAIN pulls : pulls[b] # << >> } = 0..(chunk_id - 1)

\* C5 witness: search() has returned and a candidate of a last chunk that
\* is shorter than the chunk size (of 2 or more) was resolved to the last
\* position of the corpus and entered the results under that item's id.
C5_Witness ==
    /\ Returned
    /\ Val(corpus_chunk_size) >= 2
    /\ \E row \in Range(rows) : \E j \in 1..NumQueries :
        /\ row.batch_index = Len(CorpusBatches) - 1
        /\ Len(At(CorpusBatches, row.batch_index)) < Val(corpus_chunk_size)
        /\ GlobalPos(At(row.cos_scores_top_k_idx, j - 1), row.batch_index,
                     Val(corpus_chunk_size)) = Len(corpus) - 1
        /\ At(CorpusIds, Len(corpus) - 1) \in DOMAIN results[args.queries[j].id]

\* C6: every chunk is pulled by one worker only and its record stored once
\* only; a chunk that was pulled and is no longer being worked on has its
\* record in the collector; and once the workers are stopped the collector
\* holds, besides sentinels, the rows of one record per dispatched chunk.
C6_PulledOnceStoredOnce ==
    \A b \in DOMAIN pulls :
        /\ Len(pulls[b]) <= 1
        /\ Len(appends[b]) <= 1
        /\ ( /\ Len(pulls[b]) = 1
             /\ ~ ( workers[pulls[b][1].by].st = "scoring"
                    /\ workers[pulls[b][1].by].id = b ) )
             => appends[b] = << pulls[b][1].by >>
        /\ pc = "gather" =>
             /\ appends[b] # << >>
             /\ \A w \in Procs :
                  Cardinality({ i \in DOMAIN collector[w] :
                                    collector[w][i].batch_index = b })
                    = IF appends[b] = << w >>
                      THEN Min(Val(top_k) + 1, Len(At(CorpusBatches, b)))
                      ELSE 0

\* C7: a score function name other than cos_sim and dot makes search() raise
\* at once: the step from the call leads to the error, nothing is encoded,
\* started or dispatched, the fields of the object stay as they were, and
\* nothing happens afterwards until the next call.
C7_UnknownScoreFunctionFailsFirst ==
    [][ ( /\ pc \in { "validate", "raised" }
          /\ args.score_function \notin ScoreFunctions )
        => ( /\ pc' \in { "raised", "validate" }
             /\ pc = "validate" => (pc' = "raised" /\ error' = "ValueError")
             /\ UNCHANGED << object, input_queue, results_queue, workers,
                             collector, chunk_id, rows >>
             /\ \A w \in Procs : workers[w].st = "off" ) ]_vars

\* C7 witness: search() was called with the name l2 and has raised.
C7_Witness ==
    /\ pc = "raised"
    /\ error = "ValueError"
    /\ args.score_function = "l2"
    /\ Len(args.queries) > 0

\* C8: under cos_sim an item whose score against a query is not a number is
\* no key of that query's results, whenever at least top_k other non-self
\* items exist.
C8_NaNItemNeverReturned ==
    (Returned /\ args.score_function = "cos_sim") =>
        \A j \in 1..NumQueries : \A p \in DOMAIN corpus :
            ( /\ Similarity("cos_sim", query_embeddings[j], corpus[p].vec) = NaN
              /\ Cardinality(Others(j) \ {p}) >= args.top_k )
            => corpus[p].id \notin DOMAIN results[args.queries[j].id]

\* C9: for a known score function the normalised chunk size is at least 1,
\* search() raises nothing, and no worker dies in the k-selection.
C9_ChunkSizeUsable ==
    args.score_function \in ScoreFunctions =>
        /\ pc \notin { "idle", "validate", "normalise" } => Val(corpus_chunk_size) >= 1
        /\ error = ""
        /\ \A w \in Procs : workers[w].st # "crashed"

\* C10: every invocation uses the chunk size computed from the constructor's
\* argument and that invocation's corpus.
C10_ChunkSizeFromThisCorpus ==
    ( /\ pc \notin { "idle", "validate", "normalise" }
      /\ args.score_function \in ScoreFunctions )
    => Val(corpus_chunk_size)
         = NormalisedChunkSize(constructed, Len(args.corpus), target_devices)

\* every chunk has been dispatched and pulled: the work queue is exhausted
QueueExhausted ==
    /\ pc = "dispatch"
    /\ chunk_id = Len(CorpusBatches)
    /\ input_queue = << >>

\* C11: a worker that finds the work queue exhausted has a step of its own to
\* take, the one that leaves the loop and halts it: it is not left waiting
\* on the queue with nothing it can do.
C11_WorkerHaltsByItself ==
    \A w \in Procs :
        (QueueExhausted /\ workers[w].st = "idle") => ENABLED WorkerStep(w)

ChunkCandidates(j) ==
    { p \in Others(j) :
        Cardinality({ o \in DOMAIN corpus :
            /\ ChunkOf(o) = ChunkOf(p)
            /\ ScoreOf(j, corpus[o]) > ScoreOf(j, corpus[p]) }) < args.top_k + 1 }

\* C13: with distinct scores the results search() returns are fixed by the
\* corpus, the queries, top_k, the score function and the chunk size alone:
\* each query maps the ids of the best top_k + 1 items of every chunk, its
\* own id left out, to their scores, whichever worker processed which chunk
\* and in whatever order the rows were stored.
C13_SameResultsForEveryInterleaving ==
    (Returned /\ DistinctScores) =>
        \A j \in 1..NumQueries :
            /\ DOMAIN results[args.queries[j].id]
                   = { corpus[p].id : p \in ChunkCandidates(j) }
            /\ \A p \in ChunkCandidates(j) :
                   results[args.queries[j].id][corpus[p].id] = ScoreOf(j, corpus[p])

\* C13 witness: search() has returned with distinct scores after two
\* workers stored their records so that the rows of a later chunk are read
\* before the rows of an earlier one.
C13_Witness ==
    /\ Returned
    /\ DistinctScores
    /\ target_devices = 2
    /\ \E i, j \in DOMAIN rows :
        /\ i < j
        /\ rows[j].batch_index # SentinelBatch
        /\ rows[i].batch_index > rows[j].batch_index

\* the stored rows tagged with chunk index b
RowsOf(b) == { row \in StoredRows : row.batch_index = b }

\* the local positions the rows of chunk b name for query j (1-based)
Selected(b, j) == { At(row.cos_scores_top_k_idx, j - 1) : row \in RowsOf(b) }

\* C14: once a worker has pulled a chunk and is done with it, the collector
\* holds the chunk's record: min(top_k + 1, items of the chunk) rows tagged
\* with the chunk's index, each with one value and one index per query, and
\* for every query the rows name that many different items of the chunk,
\* none outscored by an item left out, each with its score.
C14_TopCandidatesPerChunk ==
    \A b \in DOMAIN pulls :
        ( /\ Len(pulls[b]) = 1
          /\ ~ ( workers[pulls[b][1].by].st = "scoring"
                 /\ workers[pulls[b][1].by].id = b ) )
        => LET sentences == pulls[b][1].sentences
               k == Min(args.top_k + 1, Len(sentences))
           IN  /\ Cardinality(RowsOf(b)) = k
               /\ \A row \in RowsOf(b) :
                      /\ Len(row.cos_scores_top_k_idx) = NumQueries
                      /\ Len(row.cos_scores_top_k_values) = NumQueries
               /\ \A j \in 1..NumQueries :
                      /\ Selected(b, j) \subseteq 0..(Len(sentences) - 1)
                      /\ Cardinality(Selected(b, j)) = k
                      /\ \A l \in Selected(b, j) :
                             \A o \in 0..(Len(sentences) - 1) :
                                 o \notin Selected(b, j) =>
                                     ScoreOf(j, At(sentences, o))
                                         <= ScoreOf(j, At(sentences, l))
                      /\ \A row \in RowsOf(b) :
                             At(row.cos_scores_top_k_values, j - 1)
                                 = ScoreOf(j, At(sentences,
                                                 At(row.cos_scores_top_k_idx, j - 1)))

\* the chunks worker w has pulled so far
PulledBy(w) == { b \in DOMAIN pulls : \E i \in DOMAIN pulls[b] : pulls[b][i].by = w }

\* C15: a worker that has not written its sentinel has pulled no chunk and
\* stored nothing; until the collector is read, a worker that has pulled a
\* chunk has rows in the collector, the first row of every worker is the
\* sentinel, and no later row of it is one.
C15_SentinelBeforeFirstPull ==
    \A w \in Procs :
        /\ workers[w].st = "start" => (PulledBy(w) = {} /\ collector[w] = << >>)
        /\ (pc = "dispatch" /\ PulledBy(w) # {}) => collector[w] # << >>
        /\ collector[w] # << >> =>
              /\ collector[w][1] = SentinelRow
              /\ \A i \in 2..Len(collector[w]) :
                     collector[w][i].batch_index # SentinelBatch

\* C15 witness: each of two workers holds its sentinel followed by the rows
\* of a record, the first chunk stored by the first worker.
C15_Witness ==
    /\ pc = "dispatch"
    /\ target_devices = 2
    /\ \A w \in Procs : Len(collector[w]) >= 2
    /\ appends[0] = << 0 >>
    /\ PulledBy(1) # {}

\* the sentinel rows among the rows read from the collector
SentinelsRead == { i \in DOMAIN rows : rows[i].batch_index = SentinelBatch }

\* C16: the merge never fails on a sentinel row, however many queries there
\* are, and every entry of the results search() returns maps the id of a
\* corpus item to that item's score against the query: none comes from the
\* ones of a sentinel.
C16_SentinelsSkipped ==
    /\ error # "IndexError"
    /\ Returned =>
         \A j \in 1..NumQueries : \A cid \in DOMAIN results[args.queries[j].id] :
            \E p \in DOMAIN corpus :
                /\ corpus[p].id = cid
                /\ results[args.queries[j].id][cid] = ScoreOf(j, corpus[p])

\* C16 witness: search() has returned for more queries than the sentinel
\* row is wide, the rows read held the sentinels of two workers, and the
\* last query has results.
C16_Witness ==
    /\ Returned
    /\ NumQueries > SentinelWidth
    /\ Cardinality(SentinelsRead) = 2
    /\ DOMAIN results[args.queries[NumQueries].id] # {}

\* a worker died between pulling a chunk and storing its record
SomeWorkerCrashed == \E w \in Procs : workers[w].st = "crashed"

\* C17: after a worker has crashed on its chunk the job still completes:
\* search() has returned, with the results merged from the rows of the
\* other chunks, or the coordinator or a worker has a step left to take.
C17_JobCompletesAfterCrash ==
    SomeWorkerCrashed =>
        \/ /\ Returned
           /\ results = Merged(rows, QueryIds, CorpusIds, Val(corpus_chunk_size),
                               Len(query_embeddings))
        \/ ENABLED (Coordinator \/ Worker)

\* C18: from the start of dispatch until search() has returned, the query
\* matrix, top_k and the score function name on the object are the ones
\* stored for this job before the pool was started: the encoded queries and
\* the top_k and score_function arguments; and no worker runs before they
\* are stored.
C18_BroadcastStateFixed ==
    /\ pc \in { "dispatch", "gather", "merge", "done" } =>
         /\ query_embeddings = EncodeQueriesBatch(args.queries)
         /\ top_k = Some(args.top_k)
         /\ score_function = args.score_function
    /\ pc \in { "validate", "normalise", "encode", "start" } =>
         \A w \in Procs : workers[w].st = "off"

\* C18 witness: search() has returned after each of two workers scored a
\* chunk against the matrix and selected with top_k.
C18_Witness ==
    /\ Returned
    /\ target_devices = 2
    /\ args.top_k = MaxTopK
    /\ \A w \in Procs : \E b \in DOMAIN appends : appends[b] = << w >>

\* C19: whatever was searched before on the object, the results search()
\* returns have the query ids of this invocation as their keys, and every
\* entry of a query is the corpus id and score that a row stored during this
\* invocation gives for it.
C19_ResultsOfThisInvocationOnly ==
    Returned =>
        /\ DOMAIN results = Range(QueryIds)
        /\ \A j \in 1..NumQueries : \A cid \in DOMAIN results[args.queries[j].id] :
              \E row \in Range(rows) :
                  /\ row.batch_index # SentinelBatch
                  /\ At(CorpusIds, GlobalPos(At(row.cos_scores_top_k_idx, j - 1),
                                             row.batch_index, Val(corpus_chunk_size)))
                         = cid
                  /\ At(row.cos_scores_top_k_values, j - 1)
                         = results[args.queries[j].id][cid]

\* C19 witness: the last of MaxCalls invocations has returned, and the
\* chunk size it ran with was left by an earlier invocation on a corpus of
\* another size, which can only have returned with results under other
\* query ids.
C19_Witness ==
    /\ Returned
    /\ calls = MaxCalls
    /\ Val(corpus_chunk_size) >= 1
    /\ Val(corpus_chunk_size)
         # NormalisedChunkSize(constructed, Len(args.corpus), target_devices)

\* C20: when every chunk has been processed, the results of every query
\* hold at least top_k entries, or one entry for every corpus item whose id
\* is not the query's if there are fewer than top_k of those.
C20_EnoughResultsAfterSelfMatch ==
    (Returned /\ AllChunksProcessed) =>
        \A j \in 1..NumQueries :
            Cardinality(DOMAIN results[args.queries[j].id])
                >= Min(args.top_k, Cardinality(Others(j)))

\* C20 witness: search() has returned for a corpus whose last chunk holds
\* a single item, and a query whose id is a corpus id has exactly top_k
\* results, top_k being the largest tried.
C20_Witness ==
    /\ Returned
    /\ AllChunksProcessed
    /\ args.top_k = MaxTopK
    /\ Val(corpus_chunk_size) >= 2
    /\ Len(At(CorpusBatches, Len(CorpusBatches) - 1)) = 1
    /\ \E j \in 1..NumQueries :
        /\ Others(j) # DOMAIN corpus
        /\ Cardinality(DOMAIN results[args.queries[j].id]) = args.top_k

====
